---- MODULE Spec2Model ----
(***************************************************************************)
(* A model of abctl's container-runtime connector (docker.newWithOptions   *)
(* and createAndPing), of the "local uninstall" command                    *)
(* (UninstallCmd.Run) and of the log scanner exercised by                  *)
(* TestJavaLogScanner, and of the cluster provider exercised by            *)
(* TestProvider_Defaults and TestProvider_Cluster.                         *)
(*                                                                         *)
(* Each of the four is a sequential program with its own program counter   *)
(* (cpc, upc, spc, kpc).  A behaviour runs exactly one of them; the others *)
(* stay idle.                                                              *)
(***************************************************************************)
EXTENDS Integers, Sequences, FiniteSets, TLC

VARIABLES
    \* ---- docker.newWithOptions -------------------------------------------
    goos,            \* the goos argument
    envHost,         \* DOCKER_HOST in the environment ("" when unset)
    ctxDone,         \* the caller's context has been cancelled
    cpc,             \* position in newWithOptions
    inspectOut,      \* what "docker context inspect" produced
    potentialHosts,  \* the local slice potentialHosts
    idx,             \* position of the range loop over potentialHosts (1-based)
    cli,             \* the client createAndPing holds between newPing and Ping
    probes,          \* outcome of every createAndPing call, in call order
    calls,           \* every external call started, in order
    debugLog,        \* the errors printed by pterm.Debug in the loop
    lastErr,         \* the error of the latest failed createAndPing
    ret,             \* what newWithOptions returned: (*Docker, error)
    \* ---- UninstallCmd.Run ------------------------------------------------
    persisted,       \* u.Persisted
    clusterPresent,  \* the cluster of the provider exists
    upc,             \* position in Run
    steps,           \* the collaborator calls Run made, with their results
    defers,          \* the deferred calls of Run
    spanOpened,      \* number of trace.NewSpan calls
    spanEnded,       \* number of span.End calls
    spanAttrs,       \* the attributes set on the span
    telEvents,       \* what telClient.Wrap reported
    warnings,        \* the pterm.Warning / pterm.Debug messages of Run
    uret,            \* what Run returned
    \* ---- the log scanner -------------------------------------------------
    spc,             \* "open" while Scan may be called, "closed" after a false Scan
    consumed,        \* the raw lines the underlying reader has handed out
    Line,            \* s.Line, the most recently scanned record
    scanOk,          \* what each call of Scan returned, in call order
    scanErr,         \* what s.Err() returns
    records,         \* s.Line after each Scan that returned true
    reader,          \* what the underlying reader did at each call of Scan
    \* ---- the cluster provider and its handle -----------------------------
    provider,        \* the k8s.Provider in use
    kubeDir,         \* the directory of provider.Kubeconfig exists on disk
    handle,          \* provider.Cluster has returned a non-nil cluster
    kpc,             \* position in the provider's caller
    ops              \* the provider and handle calls made, with their results

dockerVars == <<goos, envHost, ctxDone, cpc, inspectOut, potentialHosts, idx,
                cli, probes, calls, debugLog, lastErr, ret>>

uninstallVars == <<persisted, clusterPresent, upc, steps, defers, spanOpened,
                   spanEnded, spanAttrs, telEvents, warnings, uret>>

scanVars == <<spc, consumed, Line, scanOk, scanErr, records, reader>>

k8sVars == <<provider, kubeDir, handle, kpc, ops>>

\* the variables of Run alone: uninstallVars without the cluster
runVars == <<persisted, upc, steps, defers, spanOpened, spanEnded, spanAttrs,
             telEvents, warnings, uret>>

vars == <<dockerVars, uninstallVars, scanVars, k8sVars>>

-----------------------------------------------------------------------------
(* Errors.  An error is the sequence of its layers, outermost first:       *)
(* fmt.Errorf with one %w verb puts one layer in front of the wrapped      *)
(* error, and errors.Is looks for a target among the layers.               *)

NoErr == <<>>

Wrapf(msg, err) == <<msg>> \o err

ErrorsIs(err, target) ==
    \E i \in 1..Len(err) : SubSeq(err, i, Len(err)) = target

\* abctl.ErrDocker, the sentinel of the RuntimeUnavailable class
ErrDocker == <<"ErrDocker">>

\* the failures the docker client library can report
NewClientErrs == {<<"invalid host">>}
PingErrs      == {<<"connection refused">>, <<"permission denied">>}
CtxCanceled   == <<"context canceled">>

-----------------------------------------------------------------------------
(* Candidate addresses                                                     *)

SockStd     == "unix:///var/run/docker.sock"
SockDarwin  == "unix://HOME/.docker/run/docker.sock"
SockDesktop == "unix://HOME/.docker/desktop/docker-cli.sock"
PipeWindows == "npipe:////./pipe/docker_engine"
CtxHost     == "tcp://context:2375"
EnvHostAddr == "tcp://env:2375"

GOOS == {"darwin", "windows", "linux"}

\* number of entries the "docker context inspect" array may hold
MaxInspectEntries == 2

\* Endpoints.Docker.Host values an entry of the array may carry
InspectHosts == {"", CtxHost, SockStd}

\* The outcomes of exec.Command("docker", "context", "inspect").Output()
\* followed by json.Unmarshal: the command fails, its output does not
\* parse, or it parses into an array of entries.
InspectOutcomes ==
    {[cmdOk |-> FALSE, jsonOk |-> FALSE, data |-> <<>>],
     [cmdOk |-> TRUE,  jsonOk |-> FALSE, data |-> <<>>]}
    \cup
    {[cmdOk |-> TRUE, jsonOk |-> TRUE, data |-> d] :
        d \in UNION {[1..n -> InspectHosts] : n \in 0..MaxInspectEntries}}

NotInspected == [cmdOk |-> FALSE, jsonOk |-> FALSE, data |-> <<"not run">>]

\* lines 101-114: the host of the current context, when there is a usable one
ContextHostsKeepsEmpty(out) ==
    IF out.cmdOk /\ out.jsonOk /\ Len(out.data) > 0
    THEN <<out.data[1]>>
    ELSE <<>>
ContextHosts(out) ==
    IF out.cmdOk /\ out.jsonOk /\ Len(out.data) > 0 /\ out.data[1] # ""
    THEN <<out.data[1]>>
    ELSE <<>>

\* lines 119-132: the switch on goos
FallbackHosts(os) ==
    CASE os = "darwin"  -> <<SockStd, SockDarwin>>
      [] os = "windows" -> <<PipeWindows>>
      [] OTHER          -> <<SockStd, SockDesktop>>

-----------------------------------------------------------------------------
(* Client options.  A client.Opt is a function applied to the client under *)
(* construction; NewClientWithOpts applies them in argument order.         *)

Opt(op, host) == [op |-> op, host |-> host]

WithHost(host) == Opt("WithHost", host)
FromEnv        == Opt("FromEnv", "")

\* line 140
dockerOpts ==
    <<FromEnv, Opt("WithAPIVersionNegotiation", ""), Opt("WithTraceProvider", "")>>

\* line 158: client.WithHost(host) is put in front of the shared options
CreateOptsSwapped(host) == dockerOpts \o <<WithHost(host)>>
CreateOpts(host) == <<WithHost(host)>> \o dockerOpts

\* One option applied to the host of the client: WithHost sets it, FromEnv
\* sets it to DOCKER_HOST when that is specified (lines 156-157).
ApplyOpt(host, opt, env) ==
    CASE opt.op = "WithHost" -> opt.host
      [] opt.op = "FromEnv"  -> IF env # "" THEN env ELSE host
      [] OTHER               -> host

RECURSIVE ApplyOpts(_, _, _)
ApplyOpts(host, opts, env) ==
    IF opts = <<>> THEN host
    ELSE ApplyOpts(ApplyOpt(host, Head(opts), env), Tail(opts), env)

\* the client newPing builds for the option list: `for` is the position of
\* the candidate it was constructed for, `host` the address it talks to
NoClient == [for |-> 0, host |-> ""]
NewClient(i, opts, env) == [for |-> i, host |-> ApplyOpts(SockStd, opts, env)]

Call(op, usesCtx) == [op |-> op, usesCtx |-> usesCtx, afterCancel |-> ctxDone]

-----------------------------------------------------------------------------
(* newWithOptions                                                          *)

DockerIdle ==
    /\ goos = "linux" /\ envHost = "" /\ ctxDone = FALSE
    /\ cpc = "idle"
    /\ inspectOut = NotInspected
    /\ potentialHosts = <<>> /\ idx = 0 /\ cli = NoClient
    /\ probes = <<>> /\ calls = <<>> /\ debugLog = <<>>
    /\ lastErr = NoErr
    /\ ret = [docker |-> NoClient, err |-> NoErr]

DockerStart ==
    /\ goos \in GOOS
    /\ envHost \in {"", EnvHostAddr}
    /\ ctxDone \in BOOLEAN
    /\ cpc = "inspect"
    /\ inspectOut = NotInspected
    /\ potentialHosts = <<>> /\ idx = 0 /\ cli = NoClient
    /\ probes = <<>> /\ calls = <<>> /\ debugLog = <<>>
    /\ lastErr = NoErr
    /\ ret = [docker |-> NoClient, err |-> NoErr]

\* the caller cancels ctx while newWithOptions runs
Cancel ==
    /\ cpc \in {"inspect", "loop", "ping"}
    /\ ~ctxDone
    /\ ctxDone' = TRUE
    /\ UNCHANGED <<goos, envHost, cpc, inspectOut, potentialHosts, idx, cli,
                   probes, calls, debugLog, lastErr, ret>>
    /\ UNCHANGED <<uninstallVars, scanVars, k8sVars>>

\* lines 97-132: build potentialHosts
BuildHosts ==
    /\ cpc = "inspect"
    /\ \E out \in InspectOutcomes :
          /\ inspectOut' = out
          /\ potentialHosts' = ContextHosts(out) \o FallbackHosts(goos)
    /\ calls' = Append(calls, Call("inspect", FALSE))
    /\ idx' = 1
    /\ cpc' = "loop"
    /\ UNCHANGED <<goos, envHost, ctxDone, cli, probes, debugLog, lastErr, ret>>
    /\ UNCHANGED <<uninstallVars, scanVars, k8sVars>>

\* line 142: the range loop moves to the following candidate
NextCandidateSkips(i) == i + 2
NextCandidate(i) == i + 1

\* a failed createAndPing: line 145, then the next iteration
ProbeFailed(outcome, err) ==
    /\ probes' = Append(probes, [cand |-> idx, outcome |-> outcome])
    /\ debugLog' = Append(debugLog, [host |-> potentialHosts[idx], err |-> err])
    /\ lastErr' = err
    /\ idx' = NextCandidate(idx)
    /\ cli' = NoClient
    /\ cpc' = "loop"
    /\ UNCHANGED ret

\* lines 142-143, 158-161: the loop takes the next host and createAndPing
\* constructs its client
CreateClient ==
    /\ cpc = "loop"
    /\ idx <= Len(potentialHosts)
    /\ calls' = Append(calls, Call("newPing", FALSE))
    /\ \/ \E e \in NewClientErrs :
             ProbeFailed("newfail", Wrapf("unable to create docker client", e))
       \/ /\ cli' = NewClient(idx, CreateOpts(potentialHosts[idx]), envHost)
          /\ cpc' = "ping"
          /\ UNCHANGED <<probes, debugLog, lastErr, idx, ret>>
    /\ UNCHANGED <<goos, envHost, ctxDone, inspectOut, potentialHosts>>
    /\ UNCHANGED <<uninstallVars, scanVars, k8sVars>>

\* the errors cli.Ping(ctx) can return: a cancelled context always fails it
PingOutcomes == IF ctxDone THEN {CtxCanceled} ELSE PingErrs \cup {NoErr}

\* lines 163-167: the client is returned only when Ping gave no error
PingAlwaysSucceeded(e) == TRUE
PingSucceeded(e) == e = NoErr

\* lines 163-167, 144-148: ping the client; return it, or log and continue
PingClient ==
    /\ cpc = "ping"
    /\ calls' = Append(calls, Call("Ping", TRUE))
    /\ \E e \in PingOutcomes :
          IF PingSucceeded(e)
          THEN /\ probes' = Append(probes,
                    [cand |-> idx, outcome |-> IF e = NoErr THEN "ok" ELSE "pingfail"])
               /\ ret' = [docker |-> cli, err |-> NoErr]
               /\ cpc' = "done"
               /\ UNCHANGED <<debugLog, lastErr, idx, cli>>
          ELSE ProbeFailed("pingfail", Wrapf("unable to ping docker client", e))
    /\ UNCHANGED <<goos, envHost, ctxDone, inspectOut, potentialHosts>>
    /\ UNCHANGED <<uninstallVars, scanVars, k8sVars>>

\* line 151: the error returned once every candidate has failed
ExhaustedErrWrapsLast(last) == Wrapf("unable to create docker client", ErrDocker \o last)
ExhaustedErr(last) == Wrapf("unable to create docker client", ErrDocker)

\* lines 149-151: the loop ran out of candidates
Exhausted ==
    /\ cpc = "loop"
    /\ idx > Len(potentialHosts)
    /\ ret' = [docker |-> NoClient, err |-> ExhaustedErr(lastErr)]
    /\ cpc' = "done"
    /\ UNCHANGED <<goos, envHost, ctxDone, inspectOut, potentialHosts, idx, cli,
                   probes, calls, debugLog, lastErr>>
    /\ UNCHANGED <<uninstallVars, scanVars, k8sVars>>

NextDocker == Cancel \/ BuildHosts \/ CreateClient \/ PingClient \/ Exhausted

-----------------------------------------------------------------------------
(* The cluster provider.  A path is the sequence of its components.        *)

\* paths.FileKubeconfig and paths.Kubeconfig
FileKubeconfig  == "abctl.kubeconfig"
PathsKubeconfig == <<"HOME", ".airbyte", "abctl", FileKubeconfig>>

\* the temporary directories a run may be given
TempDirs == {<<"tmp", "abctl-1">>, <<"tmp", "abctl-2">>}

\* filepath.Base and filepath.Dir
Base(path) == path[Len(path)]
Dir(path)  == SubSeq(path, 1, Len(path) - 1)

DefaultProvider ==
    [Name        |-> "kind",
     ClusterName |-> "airbyte-abctl",
     Context     |-> "kind-airbyte-abctl",
     Kubeconfig  |-> PathsKubeconfig]

\* the test provider keeps its kubeconfig in a temporary directory
TestProviderAtUserPath(tmp) ==
    [Name        |-> "test",
     ClusterName |-> "test-airbyte-abctl",
     Context     |-> "test-airbyte-abctl",
     Kubeconfig  |-> PathsKubeconfig]
TestProviderIn(tmp) ==
    [Name        |-> "test",
     ClusterName |-> "test-airbyte-abctl",
     Context     |-> "test-airbyte-abctl",
     Kubeconfig  |-> Append(tmp, FileKubeconfig)]

Providers == {DefaultProvider} \cup {TestProviderIn(tmp) : tmp \in TempDirs}

\* the failures the cluster calls can report
ClusterErrs == {<<"unable to create kubeconfig directory">>}
DeleteErrs  == {<<"unable to delete cluster">>}

\* number of handle calls made after Provider.Cluster
MaxOps == 4

\* Provider.Cluster leaves the kubeconfig directory on disk when it succeeds
KubeDirUntouched(dir, err) == dir
KubeDirAfterCluster(dir, err) == IF err = NoErr THEN TRUE ELSE dir

\* Provider.Cluster attaches to the cluster that is there.  When there is
\* none it creates it, or hands out the handle of the absent cluster (the
\* one Exists then reports as not existing): whether a cluster is created.
ClusterCreates(present, err) ==
    IF err = NoErr /\ ~present THEN BOOLEAN ELSE {FALSE}

\* what cluster.Exists can answer: false when the cluster is absent or its
\* existence cannot be determined
ExistsAnswers == IF clusterPresent THEN BOOLEAN ELSE {FALSE}

\* what cluster.Delete can return: deleting an absent cluster succeeds
DeleteOnAbsentFails(present) == IF present THEN DeleteErrs \cup {NoErr} ELSE DeleteErrs
DeleteOutcomes(present) == IF present THEN DeleteErrs \cup {NoErr} ELSE {NoErr}

\* the cluster after Delete returned err
PresentAfterDelete(present, err) == IF err = NoErr THEN FALSE ELSE present

Op(name, before, ok, err, after) ==
    [op |-> name, before |-> before, ok |-> ok, err |-> err, after |-> after]

K8sIdle ==
    /\ provider = DefaultProvider
    /\ kubeDir = FALSE /\ handle = FALSE
    /\ kpc = "idle" /\ ops = <<>>

\* the provider Run is given
K8sForRun ==
    /\ provider \in Providers
    /\ kubeDir \in BOOLEAN /\ handle = FALSE
    /\ kpc = "idle" /\ ops = <<>>

\* TestProvider_Cluster starts
K8sStart ==
    /\ provider \in Providers
    /\ kubeDir \in BOOLEAN /\ handle = FALSE
    /\ clusterPresent \in BOOLEAN
    /\ kpc = "clean" /\ ops = <<>>

\* provider_test.go lines 54-60: os.RemoveAll of the kubeconfig directory
RemoveKubeDir ==
    /\ kpc = "clean"
    /\ kubeDir' = FALSE
    /\ kpc' = "provider"
    /\ UNCHANGED <<provider, handle, ops, clusterPresent>>
    /\ UNCHANGED <<dockerVars, runVars, scanVars>>

\* provider_test.go lines 62-73: Provider.Cluster, called again later to
\* attach to the same cluster
ProviderCluster ==
    /\ kpc \in {"provider", "handle"}
    /\ Len(ops) < MaxOps
    /\ \E e \in ClusterErrs \cup {NoErr} :
       \E created \in ClusterCreates(clusterPresent, e) :
          /\ kubeDir' = KubeDirAfterCluster(kubeDir, e)
          /\ clusterPresent' = (clusterPresent \/ created)
          /\ handle' = (handle \/ e = NoErr)
          /\ ops' = Append(ops, Op("Cluster", clusterPresent, created, e, clusterPresent'))
          /\ kpc' = IF handle' THEN "handle" ELSE "failed"
    /\ UNCHANGED provider
    /\ UNCHANGED <<dockerVars, runVars, scanVars>>

\* ClusterHandle.Exists
HandleExists ==
    /\ kpc = "handle"
    /\ Len(ops) < MaxOps
    /\ \E b \in ExistsAnswers :
          ops' = Append(ops, Op("Exists", clusterPresent, b, NoErr, clusterPresent))
    /\ UNCHANGED <<provider, kubeDir, handle, kpc, clusterPresent>>
    /\ UNCHANGED <<dockerVars, runVars, scanVars>>

\* ClusterHandle.Delete
HandleDelete ==
    /\ kpc = "handle"
    /\ Len(ops) < MaxOps
    /\ \E e \in DeleteOutcomes(clusterPresent) :
          /\ clusterPresent' = PresentAfterDelete(clusterPresent, e)
          /\ ops' = Append(ops, Op("Delete", clusterPresent, e = NoErr, e, clusterPresent'))
    /\ UNCHANGED <<provider, kubeDir, handle, kpc>>
    /\ UNCHANGED <<dockerVars, runVars, scanVars>>

NextK8s == RemoveKubeDir \/ ProviderCluster \/ HandleExists \/ HandleDelete

-----------------------------------------------------------------------------
(* UninstallCmd.Run                                                        *)

\* the failures the collaborators of Run can report
DockerCheckErrs == {Wrapf("unable to create docker client", ErrDocker)}
ManagerErrs     == {<<"unable to initialize local command">>}
TeardownErrs    == {<<"unable to uninstall airbyte chart">>,
                    <<"unable to delete namespace">>}

NotReturned == [done |-> FALSE, err |-> NoErr]
Returned(err) == [done |-> TRUE, err |-> err]

\* a collaborator call and its result: ok is the boolean Exists returned,
\* and err = NoErr for every other call
Step(name, ok, err) == [step |-> name, ok |-> ok, err |-> err]

\* What Run does with the result of a step: go on to the next step, or
\* return err.
Continue    == [cont |-> TRUE,  err |-> NoErr]
ReturnErr(err) == [cont |-> FALSE, err |-> err]

\* line 239: the attributes of the span
SpanWithoutAttributes(p) == <<>>
SpanAttributes(p) == <<[key |-> "persisted", value |-> p]>>

\* line 237: what Run defers once the span is open
DeferredNothing == <<>>
Deferred == <<"span.End">>

\* lines 245-249
DockerCheckIgnored(err) == Continue
DockerCheckResult(err) ==
    IF err # NoErr
    THEN ReturnErr(Wrapf("unable to determine docker installation status", err))
    ELSE Continue

\* lines 254-258
ClusterFailureIgnored(err) == Continue
ClusterResult(err) == IF err # NoErr THEN ReturnErr(err) ELSE Continue

\* lines 260-264: if no cluster exists, there is nothing to do
ExistsFallsThrough(exists) == Continue
ExistsResult(exists) == IF ~exists THEN ReturnErr(NoErr) ELSE Continue

\* lines 268-277: a manager that cannot be built is a warning, and the
\* application-level uninstall is skipped
ManagerFailureUninstalls(err) == "uninstall"
AfterNewManager(err) == IF err # NoErr THEN "delete" ELSE "uninstall"

\* lines 273-276: a failed application-level uninstall is a warning
TeardownFailureReturned(err) == IF err # NoErr THEN ReturnErr(err) ELSE Continue
TeardownResult(err) == Continue

\* lines 280-288
DeleteFailed == <<"unable to uninstall cluster">>
DeleteFailureIgnored(err) == ReturnErr(NoErr)
DeleteResult(err) == IF err # NoErr THEN ReturnErr(DeleteFailed) ELSE ReturnErr(NoErr)

RECURSIVE CountOf(_, _)
CountOf(x, seq) ==
    IF seq = <<>> THEN 0
    ELSE (IF Head(seq) = x THEN 1 ELSE 0) + CountOf(x, Tail(seq))

UninstallIdle ==
    /\ persisted = FALSE /\ clusterPresent = FALSE
    /\ upc = "idle"
    /\ steps = <<>> /\ defers = <<>>
    /\ spanOpened = 0 /\ spanEnded = 0 /\ spanAttrs = <<>>
    /\ telEvents = <<>> /\ warnings = <<>>
    /\ uret = NotReturned

UninstallStart ==
    /\ persisted \in BOOLEAN
    /\ clusterPresent \in BOOLEAN
    /\ upc = "start"
    /\ steps = <<>> /\ defers = <<>>
    /\ spanOpened = 0 /\ spanEnded = 0 /\ spanAttrs = <<>>
    /\ telEvents = <<>> /\ warnings = <<>>
    /\ uret = NotReturned

\* Run returns err: the deferred calls run (line 237)
RunReturns(err) ==
    /\ uret' = Returned(err)
    /\ spanEnded' = spanEnded + CountOf("span.End", defers)
    /\ defers' = <<>>
    /\ upc' = "done"

\* the function given to telClient.Wrap returns err, Wrap reports the
\* outcome and returns the same error, and Run returns it (line 251)
WrappedReturns(err) ==
    /\ telEvents' = Append(telEvents, IF err = NoErr THEN "success" ELSE "failure")
    /\ RunReturns(err)

\* lines 236-243: open the span, defer its end, set its attribute
OpenSpan ==
    /\ UNCHANGED <<dockerVars, scanVars, k8sVars>>
    /\ upc = "start"
    /\ spanOpened' = spanOpened + 1
    /\ defers' = Deferred \o defers
    /\ spanAttrs' = spanAttrs \o SpanAttributes(persisted)
    /\ upc' = "docker"
    /\ UNCHANGED <<persisted, clusterPresent, steps, spanEnded, telEvents,
                   warnings, uret>>

\* lines 245-251: dockerInstalled; on success telClient.Wrap is entered
CheckDocker ==
    /\ UNCHANGED <<dockerVars, scanVars, k8sVars>>
    /\ upc = "docker"
    /\ \E e \in DockerCheckErrs \cup {NoErr} :
          /\ steps' = Append(steps, Step("dockerInstalled", e = NoErr, e))
          /\ IF DockerCheckResult(e).cont
             THEN /\ telEvents' = Append(telEvents, "start")
                  /\ upc' = "cluster"
                  /\ UNCHANGED <<defers, spanEnded, uret>>
             ELSE /\ RunReturns(DockerCheckResult(e).err)
                  /\ UNCHANGED telEvents
    /\ UNCHANGED <<persisted, clusterPresent, spanOpened, spanAttrs, warnings>>

\* lines 254-258: provider.Cluster
GetCluster ==
    /\ UNCHANGED <<dockerVars, scanVars, provider, kpc, ops>>
    /\ upc = "cluster"
    /\ \E e \in ClusterErrs \cup {NoErr} :
       \E created \in ClusterCreates(clusterPresent, e) :
          /\ steps' = Append(steps, Step("Cluster", e = NoErr, e))
          /\ kubeDir' = KubeDirAfterCluster(kubeDir, e)
          /\ clusterPresent' = (clusterPresent \/ created)
          /\ handle' = (e = NoErr)
          /\ IF ClusterResult(e).cont
             THEN /\ upc' = "exists"
                  /\ UNCHANGED <<defers, spanEnded, telEvents, uret>>
             ELSE WrappedReturns(ClusterResult(e).err)
    /\ UNCHANGED <<persisted, spanOpened, spanAttrs, warnings>>

\* lines 260-266: cluster.Exists
CheckExists ==
    /\ UNCHANGED <<dockerVars, scanVars, k8sVars>>
    /\ upc = "exists"
    /\ \E b \in ExistsAnswers :
          /\ steps' = Append(steps, Step("Exists", b, NoErr))
          /\ IF ExistsResult(b).cont
             THEN /\ upc' = "manager"
                  /\ UNCHANGED <<defers, spanEnded, telEvents, uret>>
             ELSE WrappedReturns(ExistsResult(b).err)
    /\ UNCHANGED <<persisted, clusterPresent, spanOpened, spanAttrs, warnings>>

\* lines 268-272: service.NewManager
NewManager ==
    /\ UNCHANGED <<dockerVars, scanVars, k8sVars>>
    /\ upc = "manager"
    /\ \E e \in ManagerErrs \cup {NoErr} :
          /\ steps' = Append(steps, Step("NewManager", e = NoErr, e))
          /\ warnings' = IF e # NoErr THEN Append(warnings, e) ELSE warnings
          /\ upc' = AfterNewManager(e)
    /\ UNCHANGED <<persisted, clusterPresent, defers, spanOpened, spanEnded,
                   spanAttrs, telEvents, uret>>

\* lines 273-276: svcMgr.Uninstall
UninstallApp ==
    /\ UNCHANGED <<dockerVars, scanVars, k8sVars>>
    /\ upc = "uninstall"
    /\ \E e \in TeardownErrs \cup {NoErr} :
          /\ steps' = Append(steps, Step("Uninstall", e = NoErr, e))
          /\ warnings' = IF e # NoErr THEN Append(warnings, e) ELSE warnings
          /\ IF TeardownResult(e).cont
             THEN /\ upc' = "delete"
                  /\ UNCHANGED <<defers, spanEnded, telEvents, uret>>
             ELSE WrappedReturns(TeardownResult(e).err)
    /\ UNCHANGED <<persisted, clusterPresent, spanOpened, spanAttrs>>

\* lines 279-288: cluster.Delete
DeleteCluster ==
    /\ UNCHANGED <<dockerVars, scanVars, k8sVars>>
    /\ upc = "delete"
    /\ \E e \in DeleteErrs \cup {NoErr} :
          /\ steps' = Append(steps, Step("Delete", e = NoErr, e))
          /\ clusterPresent' = PresentAfterDelete(clusterPresent, e)
          /\ WrappedReturns(DeleteResult(e).err)
    /\ UNCHANGED <<persisted, spanOpened, spanAttrs, warnings>>

NextUninstall ==
    OpenSpan \/ CheckDocker \/ GetCluster \/ CheckExists \/ NewManager
    \/ UninstallApp \/ DeleteCluster

-----------------------------------------------------------------------------
(* The log scanner.  A raw line is a sequence of tokens; text is a         *)
(* sequence of tokens too.  A structured line is an object: "{", fields,   *)
(* "}", a field being a key=value token.                                   *)

\* number of lines the input may hold
MaxLines == 3

TextNonJson == <<"nonjsonline">>
TextWaiting == <<"Waiting for database to become available...">>

\* line 192
PlainTestLine == TextNonJson
\* line 193
JsonTestLine ==
    <<"{", "timestamp=1734723317023", "message=Waiting", "level=WARN",
      "logSource=platform", "caller=main", "throwable=null", "}">>

\* lines 191-194: testLogs, split at the newline
testLogs == <<PlainTestLine, JsonTestLine>>

\* the raw lines of the model
RawLines ==
    {PlainTestLine, JsonTestLine,
     <<>>,
     <<"{">>,
     <<"{", "}">>,
     <<"{", "level=WARN">>,
     <<"level=WARN", "}">>,
     <<"{", "level=INFO", "}">>,
     <<"{", "message=Waiting", "}">>,
     <<"{", "level=WARN", "message=hello", "level=INFO", "}">>,
     <<"{", "nonjsonline", "}">>,
     <<"{", "message=hello", "}", "}">>}

\* the value of a key=value token, "none" for any other token or key
LevelOf(tok) ==
    CASE tok = "level=WARN" -> "WARN"
      [] tok = "level=INFO" -> "INFO"
      [] OTHER              -> "none"

MessageOf(tok) ==
    CASE tok = "message=Waiting" -> TextWaiting
      [] tok = "message=hello"   -> <<"hello">>
      [] OTHER                   -> <<"none">>

IsField(tok) ==
    tok \in {"timestamp=1734723317023", "message=Waiting", "message=hello",
             "level=WARN", "level=INFO", "logSource=platform", "caller=main",
             "throwable=null"}

\* a line parses as a structured record when it is one object of fields
ParsesAsRecord(raw) ==
    /\ Len(raw) >= 2
    /\ raw[1] = "{"
    /\ raw[Len(raw)] = "}"
    /\ \A i \in 2..(Len(raw) - 1) : IsField(raw[i])

\* the value of the last level (message) field of a structured line, the
\* zero value when there is none
RECURSIVE LevelField(_)
LevelField(raw) ==
    IF raw = <<>> THEN ""
    ELSE IF LevelOf(raw[Len(raw)]) # "none" THEN LevelOf(raw[Len(raw)])
    ELSE LevelField(SubSeq(raw, 1, Len(raw) - 1))

RECURSIVE MessageField(_)
MessageField(raw) ==
    IF raw = <<>> THEN <<>>
    ELSE IF MessageOf(raw[Len(raw)]) # <<"none">> THEN MessageOf(raw[Len(raw)])
    ELSE MessageField(SubSeq(raw, 1, Len(raw) - 1))

LogLine(level, message) == [Level |-> level, Message |-> message]

\* the record of one raw line: the fields of a structured line, or the whole
\* line as the message with an empty level
ParseLineKeepsPrevious(raw, prev) ==
    IF ParsesAsRecord(raw)
    THEN LogLine(LevelField(raw), MessageField(raw))
    ELSE prev
ParseLine(raw, prev) ==
    IF ParsesAsRecord(raw)
    THEN LogLine(LevelField(raw), MessageField(raw))
    ELSE LogLine("", raw)

ReadErrs == {<<"read: connection reset">>}

\* Err() after a line has been read: a line that does not parse is not an
\* error
ErrAfterLineReportsParse(raw, err) ==
    IF ParsesAsRecord(raw) THEN err ELSE <<"invalid character">>
ErrAfterLine(raw, err) == err

ScanIdle ==
    /\ spc = "idle"
    /\ consumed = <<>> /\ Line = LogLine("", <<>>)
    /\ scanOk = <<>> /\ scanErr = NoErr /\ records = <<>>
    /\ reader = <<>>

\* NewLogScanner
ScanStart ==
    /\ spc = "open"
    /\ consumed = <<>> /\ Line = LogLine("", <<>>)
    /\ scanOk = <<>> /\ scanErr = NoErr /\ records = <<>>
    /\ reader = <<>>

\* Scan, the reader has one more line
ScanLine ==
    /\ spc = "open"
    /\ Len(consumed) < MaxLines
    /\ \E raw \in RawLines :
          /\ consumed' = Append(consumed, raw)
          /\ Line' = ParseLine(raw, Line)
          /\ scanErr' = ErrAfterLine(raw, scanErr)
          /\ records' = Append(records, Line')
    /\ scanOk' = Append(scanOk, TRUE)
    /\ reader' = Append(reader, "line")
    /\ UNCHANGED spc
    /\ UNCHANGED <<dockerVars, uninstallVars, k8sVars>>

\* Scan, the reader is at the end of its input
ScanEnd ==
    /\ spc = "open"
    /\ scanOk' = Append(scanOk, FALSE)
    /\ reader' = Append(reader, "eof")
    /\ spc' = "closed"
    /\ UNCHANGED <<consumed, Line, scanErr, records>>
    /\ UNCHANGED <<dockerVars, uninstallVars, k8sVars>>

\* Scan, the reader fails
ScanReadFailure ==
    /\ spc = "open"
    /\ \E e \in ReadErrs : scanErr' = e
    /\ scanOk' = Append(scanOk, FALSE)
    /\ reader' = Append(reader, "error")
    /\ spc' = "closed"
    /\ UNCHANGED <<consumed, Line, records>>
    /\ UNCHANGED <<dockerVars, uninstallVars, k8sVars>>

NextScan == ScanLine \/ ScanEnd \/ ScanReadFailure

-----------------------------------------------------------------------------
(* Properties of the runtime connector                                     *)

ConnectDone   == cpc = "done"
ConnectOk     == ConnectDone /\ ret.err = NoErr
ConnectFailed == ConnectDone /\ ret.err # NoErr

\* the address a client constructed for candidate i has to talk to
EffectiveHost(i) == IF envHost # "" THEN envHost ELSE potentialHosts[i]

\* C1: the candidates are probed in list order, each once, and probing stops
\* at the first one whose construction and ping both succeed: when the first
\* N fail and candidate N+1 succeeds, newWithOptions returns the client
\* constructed for candidate N+1 and probes nothing after it.
C1_ProbeShortCircuits ==
    LET n == Len(probes) IN
    /\ n <= Len(potentialHosts)
    /\ \A i \in 1..n : probes[i].cand = i
    /\ \A i \in 1..(n - 1) : probes[i].outcome # "ok"
    /\ (n > 0 /\ probes[n].outcome = "ok") => ConnectOk
    /\ ConnectOk =>
          /\ n > 0 /\ probes[n].outcome = "ok"
          /\ ret.docker.for = n
          /\ ret.docker.host = EffectiveHost(n)

\* the first candidate failed, the second succeeded, a third was never probed
C1_Witness ==
    /\ ConnectOk
    /\ Len(potentialHosts) = 3
    /\ Len(probes) = 2
    /\ probes[1].outcome = "pingfail"
    /\ ret.docker.for = 2

\* C2 as stated: when every candidate fails, the returned error is of the
\* ErrDocker class and wraps the error of the last candidate probed.
C2_ErrorWrapsLastFailure ==
    ConnectFailed =>
        /\ ret.docker = NoClient
        /\ ErrorsIs(ret.err, ErrDocker)
        /\ ErrorsIs(ret.err, lastErr)

\* C2 amended: when every candidate fails, newWithOptions returns no client
\* and the error "unable to create docker client" wrapping ErrDocker and
\* nothing else; the last underlying failure is not part of the returned
\* error, it is only the last entry of the debug log.  An error is returned
\* in no other case.
C2_ErrorIsErrDockerOnly ==
    /\ ConnectFailed =>
          /\ ret.docker = NoClient
          /\ Len(probes) = Len(potentialHosts)
          /\ \A i \in 1..Len(probes) : probes[i].outcome # "ok"
          /\ ret.err = Wrapf("unable to create docker client", ErrDocker)
          /\ ErrorsIs(ret.err, ErrDocker)
          /\ ~ErrorsIs(ret.err, lastErr)
          /\ Len(debugLog) = Len(probes)
          /\ debugLog[Len(debugLog)].err = lastErr
    /\ (cpc = "loop" /\ idx > Len(potentialHosts)) =>
          /\ lastErr # NoErr
          /\ \A i \in 1..Len(probes) : probes[i].outcome # "ok"

\* all three candidates failed, the last one at the ping
C2_Witness ==
    /\ ConnectFailed
    /\ Len(probes) = 3
    /\ probes[3].outcome = "pingfail"
    /\ lastErr = Wrapf("unable to ping docker client", <<"connection refused">>)

\* C8 as stated: every external call of the connection takes the caller's
\* context, and none is started once the context is cancelled.
C8_ContextGovernsEveryCall ==
    \A i \in 1..Len(calls) : calls[i].usesCtx /\ ~calls[i].afterCancel

\* C9: with DOCKER_HOST specified, every client constructed in the loop
\* talks to the override address, whatever candidate it was constructed for;
\* without it the client talks to its candidate.  WithHost(candidate) is
\* the first option and FromEnv comes after it.
C9_EnvHostOverridesCandidate ==
    /\ cli # NoClient =>
          /\ cli.for = idx
          /\ cli.host = EffectiveHost(cli.for)
          /\ envHost # "" => cli.host = envHost /\ cli.host # potentialHosts[cli.for]
    /\ ConnectOk /\ envHost # "" => ret.docker.host = envHost
    /\ \A h \in {SockStd, CtxHost} :
          /\ Head(CreateOpts(h)) = WithHost(h)
          /\ \E j \in 2..Len(CreateOpts(h)) : CreateOpts(h)[j] = FromEnv

\* the client constructed for the second candidate talks to DOCKER_HOST
C9_Witness ==
    /\ envHost = EnvHostAddr
    /\ cpc = "ping"
    /\ cli.for = 2
    /\ potentialHosts[2] = SockStd
    /\ cli.host = EnvHostAddr

-----------------------------------------------------------------------------
(* Properties of the uninstall sequence                                    *)

UninstallDone == upc = "done"

Invoked(name) == \E i \in 1..Len(steps) : steps[i].step = name
PlaceOf(name) == CHOOSE i \in 1..Len(steps) : steps[i].step = name
ResultOf(name) == steps[PlaceOf(name)]

\* C3: when Exists answers false, Run returns success at once: no deployment
\* manager is constructed, no application uninstall and no cluster Delete
\* is invoked.
C3_AbsentClusterIsSuccess ==
    (Invoked("Exists") /\ ~ResultOf("Exists").ok) =>
        /\ UninstallDone
        /\ uret = Returned(NoErr)
        /\ steps[Len(steps)].step = "Exists"
        /\ ~Invoked("NewManager")
        /\ ~Invoked("Uninstall")
        /\ ~Invoked("Delete")

\* the cluster is absent and Run has returned success
C3_Witness ==
    /\ UninstallDone
    /\ ~clusterPresent
    /\ Invoked("Exists") /\ ~ResultOf("Exists").ok
    /\ uret = Returned(NoErr)

\* C4: once the application uninstall has been invoked, failed or not, Run
\* goes on to cluster Delete, and what Run returns is decided by Delete
\* alone: success iff Delete succeeded, the Delete failure otherwise, and
\* never the error of the application uninstall.
C4_DeleteAloneDecides ==
    Invoked("Uninstall") =>
        /\ upc \in {"delete", "done"}
        /\ UninstallDone =>
              /\ steps[Len(steps)].step = "Delete"
              /\ PlaceOf("Delete") = PlaceOf("Uninstall") + 1
              /\ uret.err = NoErr <=> ResultOf("Delete").err = NoErr
              /\ ResultOf("Delete").err # NoErr => uret.err = DeleteFailed
              /\ ~ErrorsIs(uret.err, ResultOf("Uninstall").err)

\* the application uninstall failed, Delete succeeded, Run returned success
C4_Witness ==
    /\ UninstallDone
    /\ Invoked("Uninstall") /\ ResultOf("Uninstall").err # NoErr
    /\ Invoked("Delete") /\ ResultOf("Delete").err = NoErr
    /\ uret = Returned(NoErr)

\* C5: when the deployment manager cannot be constructed, the application
\* uninstall is not invoked, the next call is cluster Delete, and the
\* construction failure is not what Run returns.
C5_ManagerFailureSkipsToDelete ==
    (Invoked("NewManager") /\ ResultOf("NewManager").err # NoErr) =>
        /\ ~Invoked("Uninstall")
        /\ upc \in {"delete", "done"}
        /\ warnings = <<ResultOf("NewManager").err>>
        /\ UninstallDone =>
              /\ PlaceOf("Delete") = PlaceOf("NewManager") + 1
              /\ uret.err \in {NoErr, DeleteFailed}
              /\ uret.err = NoErr <=> ResultOf("Delete").err = NoErr
              /\ ~ErrorsIs(uret.err, ResultOf("NewManager").err)

\* the manager could not be built and Delete failed
C5_Witness ==
    /\ UninstallDone
    /\ Invoked("NewManager") /\ ResultOf("NewManager").err # NoErr
    /\ Invoked("Delete") /\ ResultOf("Delete").err # NoErr
    /\ uret = Returned(DeleteFailed)

\* C6: when the container-runtime check fails, Run returns an error at once:
\* Provider.Cluster, Exists, the manager construction, the application
\* uninstall and cluster Delete are never invoked, and telClient.Wrap is
\* never entered.
C6_DockerFailureAborts ==
    (Invoked("dockerInstalled") /\ ResultOf("dockerInstalled").err # NoErr) =>
        /\ UninstallDone
        /\ steps = <<ResultOf("dockerInstalled")>>
        /\ uret.err = Wrapf("unable to determine docker installation status",
                            ResultOf("dockerInstalled").err)
        /\ telEvents = <<>>
        /\ warnings = <<>>

\* the runtime check failed while a cluster exists; the cluster is still there
C6_Witness ==
    /\ UninstallDone
    /\ Invoked("dockerInstalled") /\ ResultOf("dockerInstalled").err # NoErr
    /\ clusterPresent
    /\ uret.err # NoErr

\* C7: the span is opened once, stays open while Run is running and has
\* been ended exactly once when Run has returned, whatever the exit.
C7_SpanEndedOnceOnEveryExit ==
    /\ spanOpened <= 1
    /\ spanEnded <= spanOpened
    /\ upc \in {"docker", "cluster", "exists", "manager", "uninstall", "delete"} =>
          spanOpened = 1 /\ spanEnded = 0
    /\ UninstallDone => spanOpened = 1 /\ spanEnded = 1 /\ defers = <<>>

\* Run returned because cluster Delete failed, and the span is closed
C7_Witness ==
    /\ UninstallDone
    /\ Invoked("Delete") /\ ResultOf("Delete").err # NoErr
    /\ spanEnded = 1

\* the other exits of Run
ExitDockerFailure  == UninstallDone /\ Len(steps) = 1
ExitClusterFailure == UninstallDone /\ steps[Len(steps)].step = "Cluster"
ExitClusterAbsent  == UninstallDone /\ steps[Len(steps)].step = "Exists"
ExitFullSuccess    == UninstallDone /\ Len(steps) = 6 /\ uret.err = NoErr

-----------------------------------------------------------------------------
(* Properties of the log scanner                                           *)

\* C10: Scan yields one record per line read, in order: an object of fields
\* gives its level and message fields, any other line gives an empty level
\* and the whole line as the message, and Err() stays nil as long as the
\* reader does not fail.  The two lines of testLogs give the two records
\* TestJavaLogScanner expects.
C10_OneRecordPerLine ==
    /\ Len(records) = Len(consumed)
    /\ \A i \in 1..Len(consumed) :
          LET raw == consumed[i] IN
          IF Len(raw) >= 2 /\ raw[1] = "{" /\ raw[Len(raw)] = "}"
             /\ \A k \in 2..(Len(raw) - 1) : IsField(raw[k])
          THEN /\ \/ records[i].Level = ""
                     /\ \A k \in 1..Len(raw) : LevelOf(raw[k]) = "none"
                  \/ \E k \in 1..Len(raw) :
                        /\ LevelOf(raw[k]) = records[i].Level
                        /\ \A j \in (k + 1)..Len(raw) : LevelOf(raw[j]) = "none"
               /\ \/ records[i].Message = <<>>
                     /\ \A k \in 1..Len(raw) : MessageOf(raw[k]) = <<"none">>
                  \/ \E k \in 1..Len(raw) :
                        /\ MessageOf(raw[k]) = records[i].Message
                        /\ \A j \in (k + 1)..Len(raw) : MessageOf(raw[j]) = <<"none">>
          ELSE records[i] = LogLine("", raw)
    /\ Len(consumed) > 0 => Line = records[Len(records)]
    /\ (\A i \in 1..Len(scanOk) : scanOk[i]) => scanErr = NoErr
    /\ spc = "open" => Len(scanOk) = Len(consumed)
    /\ (Len(consumed) >= 2 /\ SubSeq(consumed, 1, 2) = testLogs) =>
          SubSeq(records, 1, 2) = <<LogLine("", TextNonJson), LogLine("WARN", TextWaiting)>>

\* a structured line between two plain ones, three records, no error
C10_Witness ==
    /\ consumed = <<PlainTestLine, JsonTestLine, <<"{", "level=WARN">> >>
    /\ records = <<LogLine("", TextNonJson), LogLine("WARN", TextWaiting),
                   LogLine("", <<"{", "level=WARN">>)>>
    /\ scanErr = NoErr

\* C19: Scan returns false exactly when the reader is at the end of its
\* input or fails, and Err() is not nil exactly when the reader has failed:
\* a line that does not parse leaves it nil, and so does the end of input.
C19_ErrOnlyOnReadFailure ==
    /\ Len(reader) = Len(scanOk)
    /\ \A i \in 1..Len(scanOk) :
          /\ ~scanOk[i] <=> reader[i] \in {"eof", "error"}
          /\ ~scanOk[i] => i = Len(scanOk)
    /\ scanErr # NoErr <=> \E i \in 1..Len(reader) : reader[i] = "error"
    /\ scanErr # NoErr => scanErr \in ReadErrs
    /\ spc = "closed" <=> (Len(scanOk) > 0 /\ ~scanOk[Len(scanOk)])

\* a line that is no structured record, then the end of input: no error
C19_Witness ==
    /\ spc = "closed"
    /\ consumed = << <<"{", "level=WARN">> >>
    /\ reader = <<"line", "eof">>
    /\ scanOk = <<TRUE, FALSE>>
    /\ scanErr = NoErr

-----------------------------------------------------------------------------
(* Further properties of the runtime connector                             *)

\* C16: the candidate list is the host of the current context, present iff
\* the introspection command succeeded, its output parsed and the host of
\* its first entry is not empty, followed by the fallbacks of the platform
\* in their fixed order; it has between one and three entries.
C16_CandidateListOrder ==
    cpc \in {"loop", "ping", "done"} =>
        LET usable ==
                /\ inspectOut.cmdOk
                /\ inspectOut.jsonOk
                /\ Len(inspectOut.data) >= 1
                /\ inspectOut.data[1] # ""
            fallbacks ==
                IF goos = "darwin"
                THEN <<"unix:///var/run/docker.sock",
                       "unix://HOME/.docker/run/docker.sock">>
                ELSE IF goos = "windows"
                THEN <<"npipe:////./pipe/docker_engine">>
                ELSE <<"unix:///var/run/docker.sock",
                       "unix://HOME/.docker/desktop/docker-cli.sock">>
        IN  /\ usable =>
                  /\ potentialHosts[1] = inspectOut.data[1]
                  /\ potentialHosts = <<inspectOut.data[1]>> \o fallbacks
            /\ ~usable => potentialHosts = fallbacks
            /\ Len(potentialHosts) >= 1
            /\ Len(potentialHosts) <= 3
            /\ \A i \in 1..Len(potentialHosts) : potentialHosts[i] # ""

\* on windows the context host comes first and the named pipe second; the
\* second entry of the introspection output is not used
C16_Witness ==
    /\ cpc = "loop"
    /\ goos = "windows"
    /\ inspectOut.data = <<CtxHost, SockStd>>
    /\ potentialHosts = <<CtxHost, PipeWindows>>

\* C20: newWithOptions returns a client or an error, never both and never
\* neither.  A returned client was constructed and pinged with success in
\* this call; a client whose ping failed is not returned.
C20_ClientOrError ==
    /\ ~ConnectDone => ret = [docker |-> NoClient, err |-> NoErr]
    /\ ConnectDone => (ret.docker = NoClient <=> ret.err # NoErr)
    /\ ConnectOk =>
          LET k == ret.docker.for IN
          /\ k \in 1..Len(probes)
          /\ probes[k] = [cand |-> k, outcome |-> "ok"]
          /\ \E i, j \in 1..Len(calls) :
                i < j /\ calls[i].op = "newPing" /\ calls[j].op = "Ping"
          /\ calls[Len(calls)].op = "Ping" /\ ~calls[Len(calls)].afterCancel
    /\ \A i \in 1..Len(probes) :
          probes[i].outcome # "ok" => ret.docker.for # probes[i].cand

\* construction failed for the first candidate, the ping for the second,
\* and the client of the third is returned
C20_Witness ==
    /\ ConnectOk
    /\ Len(probes) = 3
    /\ probes[1].outcome = "newfail"
    /\ probes[2].outcome = "pingfail"
    /\ ret.docker.for = 3 /\ ret.err = NoErr

-----------------------------------------------------------------------------
(* Further properties of the uninstall sequence                            *)

RunSucceeded == UninstallDone /\ uret.err = NoErr

\* C13 as stated: whenever Run returns success the cluster no longer exists.
C13_SuccessMeansClusterGone == RunSucceeded => ~clusterPresent

\* C13 amended: when Run returns success, either Exists answered false and
\* nothing was deleted (the cluster is absent, or it is still there and its
\* existence could not be confirmed), or Delete succeeded and the cluster is
\* gone.  Success with the cluster still there happens only after Exists
\* answered false.
C13_SuccessMeansAbsentOrUnconfirmed ==
    RunSucceeded =>
        /\ Invoked("Exists")
        /\ \/ /\ ~ResultOf("Exists").ok
              /\ ~Invoked("Delete")
           \/ /\ ResultOf("Exists").ok
              /\ Invoked("Delete") /\ ResultOf("Delete").err = NoErr
              /\ ~clusterPresent
        /\ clusterPresent => ~ResultOf("Exists").ok

\* the cluster existed, Delete succeeded after a failed application
\* uninstall, and Run returned success with the cluster gone
C13_Witness ==
    /\ RunSucceeded
    /\ Invoked("Delete") /\ ResultOf("Delete").err = NoErr
    /\ Invoked("Uninstall") /\ ResultOf("Uninstall").err # NoErr
    /\ ~clusterPresent

StepOrder ==
    <<"dockerInstalled", "Cluster", "Exists", "NewManager", "Uninstall", "Delete">>

Rank(name) == CHOOSE k \in 1..Len(StepOrder) : StepOrder[k] = name

\* C14: the calls of Run are made in the order runtime check,
\* Provider.Cluster, Exists, manager construction, application uninstall,
\* cluster Delete, each at most once and each after the result of the one
\* before it; Run reports last.  Delete has been invoked exactly once when
\* Run has returned iff Provider.Cluster succeeded and Exists answered true.
C14_StepsInOrder ==
    /\ \A i \in 1..Len(steps) : steps[i].step \in {StepOrder[k] : k \in 1..Len(StepOrder)}
    /\ \A i, j \in 1..Len(steps) :
          i < j => Rank(steps[i].step) < Rank(steps[j].step)
    /\ \A i \in 1..Len(steps) :
          (i <= 3 \/ steps[i].step = "Delete") => steps[i].step = StepOrder[Rank(steps[i].step)]
    /\ Len(steps) >= 1 => steps[1].step = "dockerInstalled"
    /\ Len(steps) >= 2 => steps[2].step = "Cluster" /\ steps[1].err = NoErr
    /\ Len(steps) >= 3 => steps[3].step = "Exists" /\ steps[2].err = NoErr
    /\ Len(steps) >= 4 => steps[4].step = "NewManager" /\ steps[3].ok
    /\ uret.done <=> UninstallDone
    /\ UninstallDone =>
          (Invoked("Delete") <=>
              /\ Invoked("Cluster") /\ ResultOf("Cluster").err = NoErr
              /\ Invoked("Exists") /\ ResultOf("Exists").ok)
    /\ Invoked("Delete") => UninstallDone /\ steps[Len(steps)].step = "Delete"

\* all six calls were made, in order, and Run has returned
C14_Witness ==
    /\ UninstallDone
    /\ Len(steps) = 6
    /\ \A i \in 1..6 : steps[i].step = StepOrder[i]

\* C15 as stated: the span carrying the persisted attribute is opened only
\* after the runtime check has succeeded.
C15_SpanOpenedAfterDockerCheck ==
    spanOpened > 0 =>
        (Invoked("dockerInstalled") /\ ResultOf("dockerInstalled").err = NoErr)

\* C15 amended: the span carrying the persisted attribute is opened first,
\* before the runtime check is made; a run whose runtime check fails has
\* opened the span and ended it once.  What is entered only after the
\* runtime check has succeeded is telClient.Wrap.
C15_SpanOpenedBeforeDockerCheck ==
    /\ upc \in {"docker", "cluster", "exists", "manager", "uninstall", "delete", "done"} =>
          /\ spanOpened = 1
          /\ spanAttrs = <<[key |-> "persisted", value |-> persisted]>>
    /\ upc = "docker" => steps = <<>>
    /\ upc = "start" => spanOpened = 0 /\ steps = <<>>
    /\ (Invoked("dockerInstalled") /\ ResultOf("dockerInstalled").err # NoErr) =>
          spanOpened = 1 /\ spanEnded = 1 /\ telEvents = <<>>
    /\ telEvents # <<>> =>
          /\ telEvents[1] = "start"
          /\ Invoked("dockerInstalled") /\ ResultOf("dockerInstalled").err = NoErr

\* the runtime check failed in a run asked to remove persisted data: the
\* span was opened with the attribute and ended
C15_Witness ==
    /\ UninstallDone
    /\ persisted
    /\ Invoked("dockerInstalled") /\ ResultOf("dockerInstalled").err # NoErr
    /\ spanOpened = 1 /\ spanEnded = 1
    /\ spanAttrs = <<[key |-> "persisted", value |-> TRUE]>>

\* C17: Exists never reports an error, and never answers true for an absent
\* cluster.  When it answers false for a cluster that is there (its
\* existence could not be determined), Run takes the path of the absent
\* cluster: it returns success, and builds no manager, uninstalls no
\* application and deletes no cluster.
C17_UnconfirmedClusterIsAbsent ==
    /\ \A i \in 1..Len(steps) :
          steps[i].step = "Exists" => steps[i].err = NoErr
    /\ \A i \in 1..Len(ops) :
          ops[i].op = "Exists" =>
              ops[i].err = NoErr /\ (ops[i].ok => ops[i].before) /\ ops[i].after = ops[i].before
    /\ (Invoked("Exists") /\ ResultOf("Exists").ok) => (clusterPresent \/ Invoked("Delete"))
    /\ (Invoked("Exists") /\ ~ResultOf("Exists").ok /\ clusterPresent) =>
          /\ RunSucceeded
          /\ Len(steps) = 3
          /\ warnings = <<>>
          /\ telEvents = <<"start", "success">>

\* the cluster is there, Exists answered false, Run returned success
C17_Witness ==
    /\ RunSucceeded
    /\ clusterPresent
    /\ Invoked("Exists") /\ ~ResultOf("Exists").ok
    /\ ~Invoked("Delete")

-----------------------------------------------------------------------------
(* Properties of the cluster provider                                      *)

\* C11: after a successful Provider.Cluster the kubeconfig directory is on
\* disk and the handle is not nil, also when the directory was not there
\* before the call (TestProvider_Cluster removes it first).
C11_ClusterLeavesKubeDir ==
    /\ handle => kubeDir
    /\ kpc = "handle" => handle
    /\ kpc = "failed" => ~handle
    /\ \A i \in 1..Len(ops) :
          (ops[i].op = "Cluster" /\ ops[i].err = NoErr) => (handle /\ kubeDir)
    /\ (upc # "idle" /\ Len(steps) >= 2) =>
          (steps[2].step = "Cluster"
           /\ (steps[2].err = NoErr => (handle /\ kubeDir))
           /\ (steps[2].err # NoErr => ~handle))

\* the directory was removed, then the first Provider.Cluster succeeded
C11_Witness ==
    /\ kpc = "handle"
    /\ Len(ops) = 1
    /\ ops[1].op = "Cluster" /\ ops[1].err = NoErr
    /\ kubeDir /\ handle

ProfileIsFixed ==
    /\ provider.Name \in {"kind", "test"}
    /\ provider.Name = "kind" =>
          /\ provider.ClusterName = "airbyte-abctl"
          /\ provider.Context = "kind-airbyte-abctl"
          /\ provider.Kubeconfig = <<"HOME", ".airbyte", "abctl", "abctl.kubeconfig">>
    /\ provider.Name = "test" =>
          /\ provider.ClusterName = "test-airbyte-abctl"
          /\ provider.Context = "test-airbyte-abctl"
          /\ provider.Kubeconfig # DefaultProvider.Kubeconfig
          /\ Base(provider.Kubeconfig) = "abctl.kubeconfig"
          /\ Base(provider.Kubeconfig) = Base(DefaultProvider.Kubeconfig)

\* C12: the provider in use is the default profile or the test profile with
\* their fixed names; the kubeconfig of the test profile is not the
\* well-known path and has the same file name; no call changes the provider.
C12_ProfilesAreFixed == [](ProfileIsFixed) /\ [][provider' = provider]_vars

\* the test profile, after Provider.Cluster and a Delete
C12_Witness ==
    /\ provider.Name = "test"
    /\ provider.Kubeconfig = <<"tmp", "abctl-2", "abctl.kubeconfig">>
    /\ kpc = "handle"
    /\ Len(ops) = 2 /\ ops[2].op = "Delete"

\* C18: Delete of an absent cluster succeeds and changes nothing;
\* Provider.Cluster on a cluster that is there attaches to it and creates
\* none; after a successful Delete of a cluster the cluster is gone and
\* Exists answers false; a failed Delete leaves the cluster there: every call
\* leaves the cluster either there or gone.
C18_ClusterLifecycle ==
    /\ clusterPresent \in BOOLEAN
    /\ \A i \in 1..Len(ops) :
          /\ (ops[i].op = "Delete" /\ ~ops[i].before) =>
                (ops[i].err = NoErr /\ ~ops[i].after)
          /\ (ops[i].op = "Delete" /\ ops[i].before) =>
                (ops[i].after <=> ops[i].err # NoErr)
          /\ (ops[i].op = "Cluster" /\ ops[i].before) =>
                (~ops[i].ok /\ ops[i].after)
          /\ (ops[i].op = "Cluster" /\ ops[i].err # NoErr) =>
                (~ops[i].ok /\ ops[i].after = ops[i].before)
          /\ (ops[i].op = "Exists" /\ ~ops[i].before) => ~ops[i].ok
          /\ i < Len(ops) => ops[i + 1].before = ops[i].after
          /\ i = Len(ops) => ops[i].after = clusterPresent
    /\ \A i \in 1..(Len(ops) - 1) :
          (ops[i].op = "Delete" /\ ops[i].before /\ ops[i].err = NoErr
           /\ ops[i + 1].op = "Exists") => ~ops[i + 1].ok

\* Provider.Cluster attached to the cluster, Delete removed it, Exists
\* answered false, and a second Delete succeeded on the absent cluster
C18_Witness ==
    /\ kpc = "handle"
    /\ Len(ops) = 4
    /\ ops[1] = Op("Cluster", TRUE, FALSE, NoErr, TRUE)
    /\ ops[2] = Op("Delete", TRUE, TRUE, NoErr, FALSE)
    /\ ops[3] = Op("Exists", FALSE, FALSE, NoErr, FALSE)
    /\ ops[4] = Op("Delete", FALSE, TRUE, NoErr, FALSE)

-----------------------------------------------------------------------------
\* the variables of Run when Run is not called
RunIdle ==
    /\ persisted = FALSE
    /\ upc = "idle"
    /\ steps = <<>> /\ defers = <<>>
    /\ spanOpened = 0 /\ spanEnded = 0 /\ spanAttrs = <<>>
    /\ telEvents = <<>> /\ warnings = <<>>
    /\ uret = NotReturned

Init ==
    \/ DockerStart /\ UninstallIdle /\ ScanIdle /\ K8sIdle
    \/ DockerIdle /\ UninstallStart /\ ScanIdle /\ K8sForRun
    \/ DockerIdle /\ UninstallIdle /\ ScanStart /\ K8sIdle
    \/ DockerIdle /\ RunIdle /\ ScanIdle /\ K8sStart

Next == NextDocker \/ NextUninstall \/ NextScan \/ NextK8s

Spec == Init /\ [][Next]_vars
====
